---- MODULE Spec2Model ----
(***************************************************************************)
(* A model of riffx (the RIFF stream extractor: mem_mem, get_ui32, labl,   *)
(* dump, extract) and of unriffle (the RIFF chunk dumper: main, rdump).    *)
(*                                                                         *)
(* Buffers are sequences of bytes (0..255); offsets are 0-based as in the  *)
(* C code, so the byte at offset i of buffer m is m[i + 1].  Machine       *)
(* integers that can leave the 31-bit range (uint32_t size fields, size_t  *)
(* remainders after a wrap-around) are kept exactly, as four 16-bit limbs, *)
(* least significant first.                                                *)
(***************************************************************************)
EXTENDS Integers, Sequences, FiniteSets, TLC

VARIABLES
    pc,         \* position of the running program
    haystack,   \* mem_mem: the listed bytes of the haystack
    hzero,      \* mem_mem: how many zero bytes precede the listed bytes in the haystack
    needle,     \* mem_mem: the needle
    mm_ret,     \* mem_mem: the returned offset from the first listed byte (NULL: not found)
    mfile,      \* riffx: the mapped input file
    maptail,    \* riffx: zero bytes mapped after the end of file (rest of the last page)
    cfg,        \* the program's configuration struct
    riff,       \* extract: offset of the current hit (NULL: none)
    remsize,    \* extract: bytes from the current hit to the end of file
    id,         \* extract: sequence id of the next segment
    segs,       \* extract: the calls of dump so far
    ret,        \* extract: the returned count
    fbuf,       \* unriffle: the file in memory, followed by the readable bytes behind it
    fzero,      \* unriffle: how many zero bytes follow the bytes of fbuf in memory
    filesize,   \* unriffle: the length of the file (a size_t)
    cur,        \* rdump: the arguments of the running call
    stack,      \* rdump: the calls waiting for the running one to return
    out,        \* rdump: the chunks reported so far
    calls,      \* rdump: the calls made so far
    nums,       \* rdump: the numeric fields read so far
    rdtop       \* rdump: the highest offset read so far (NULL: none)

mmVars == <<haystack, hzero, needle, mm_ret>>
exVars == <<mfile, maptail, riff, remsize, id, segs, ret>>
decVars == <<fbuf, fzero, filesize, cur, stack, out, calls, nums, rdtop>>
vars == <<pc, cfg, mmVars, exVars, decVars>>

NULL == 0 - 1
FAULT == 0 - 2

Max(S) == CHOOSE x \in S : \A y \in S : y <= x
Min(S) == CHOOSE x \in S : \A y \in S : x <= y

RECURSIVE Flat(_)
Flat(ss) == IF ss = <<>> THEN <<>> ELSE Head(ss) \o Flat(Tail(ss))

RECURSIVE SeqsUpTo(_, _)
SeqsUpTo(S, n) ==
    IF n = 0 THEN {<<>>}
    ELSE LET T == SeqsUpTo(S, n - 1)
         IN  T \cup {Append(t, x) : t \in {u \in T : Len(u) = n - 1}, x \in S}

(***************************************************************************)
(* Machine integers: 64-bit unsigned numbers as four 16-bit limbs.         *)
(***************************************************************************)
Base == 256 * 256

N64(n) == <<n % Base, (n \div Base) % Base, 0, 0>>

Add64(a, b) ==
    LET s1 == a[1] + b[1]
        s2 == a[2] + b[2] + (s1 \div Base)
        s3 == a[3] + b[3] + (s2 \div Base)
        s4 == a[4] + b[4] + (s3 \div Base)
    IN  <<s1 % Base, s2 % Base, s3 % Base, s4 % Base>>

Not64(a) == <<Base - 1 - a[1], Base - 1 - a[2], Base - 1 - a[3], Base - 1 - a[4]>>

Sub64(a, b) == Add64(Add64(a, Not64(b)), N64(1))

Trunc32(a) == <<a[1], a[2], 0, 0>>

Lt64(a, b) ==
    \/ a[4] < b[4]
    \/ a[4] = b[4] /\ a[3] < b[3]
    \/ a[4] = b[4] /\ a[3] = b[3] /\ a[2] < b[2]
    \/ a[4] = b[4] /\ a[3] = b[3] /\ a[2] = b[2] /\ a[1] < b[1]

Le64(a, b) == ~Lt64(b, a)

IsSmall(a) == a[4] = 0 /\ a[3] = 0 /\ a[2] < 256

ToInt(a) == a[1] + Base * a[2]

(***************************************************************************)
(* FourCC tags and characters.                                             *)
(***************************************************************************)
RIFF == <<82, 73, 70, 70>>
RIFX == <<82, 73, 70, 88>>
LABL == <<108, 97, 98, 108>>
NOTE == <<110, 111, 116, 101>>
DATA == <<100, 97, 116, 97>>
WAVE == <<87, 65, 86, 69>>

RIF_(e) == IF e = 0 THEN RIFF ELSE RIFX

isprint(c) == 32 <= c /\ c <= 126

(***************************************************************************)
(* mem_mem: Boyer-Moore-Horspool search of ndl in hst[base .. base+hlen).  *)
(* Returns the offset of the first occurrence, base for an empty needle,   *)
(* NULL when there is none.                                                *)
(***************************************************************************)
skip_first(ndl, c) ==
    LET nlen == Len(ndl)
        ks == {k \in 0..(nlen - 2) : ndl[k + 1] = c}
    IN  IF ks = {} THEN nlen ELSE nlen - Min(ks) - 1

\* skip[c] after the two set-up loops: nlen, overwritten by nlen - k - 1 for
\* each k < nlen - 1 with ndl[k] = c in increasing k, so the largest k wins.
skip(ndl, c) ==
    LET nlen == Len(ndl)
        ks == {k \in 0..(nlen - 2) : ndl[k + 1] = c}
    IN  IF ks = {} THEN nlen ELSE nlen - Max(ks) - 1

\* The inner comparison loop; yields <<i, j>> as it leaves the loop.
RECURSIVE mm_compare(_, _, _, _, _)
mm_compare(hst, base, ndl, i, j) ==
    IF j >= 0 /\ hst[base + i + 1] = ndl[j + 1]
    THEN mm_compare(hst, base, ndl, i - 1, j - 1)
    ELSE <<i, j>>

RECURSIVE mm_search(_, _, _, _, _)
mm_search(hst, base, hlen, ndl, k) ==
    IF k >= hlen THEN NULL
    ELSE LET r == mm_compare(hst, base, ndl, k, Len(ndl) - 1)
         IN  IF r[2] = 0 - 1 THEN base + r[1] + 1
             ELSE mm_search(hst, base, hlen, ndl, k + skip(ndl, hst[base + k + 1]))

mem_mem(hst, base, hlen, ndl) ==
    IF Len(ndl) = 0 THEN base
    ELSE mm_search(hst, base, hlen, ndl, Len(ndl) - 1)

\* The result of a call whose behaviour is undefined.
UNDEF == 0 - 3

\* 2^31: from this index on the size_t k of line 117 does not fit the int i
\* of line 118.
IntLimit == <<0, Base \div 2, 0, 0>>

\* a mod n for a small n.
Mod64(a, n) ==
    LET b == Base % n
    IN  ((a[1] % n) + b * (a[2] % n) + ((b * b) % n) * (a[3] % n)
            + ((b * b * b) % n) * (a[4] % n)) % n

\* mem_mem on a haystack of z >= 2^31 zero bytes followed by the bytes hst,
\* for a needle ndl of positive length without a zero byte.  On the zeros
\* every comparison fails at once and k advances by skip[0] = nlen, so k
\* runs through nlen - 1, 2 nlen - 1, ...  For the first such k >= 2^31, if
\* it is an index of the haystack, i = k (line 119) is converted to a
\* negative int and hst[i] is read before the haystack: UNDEF.  Otherwise the
\* loop ends and NULL is returned.
mem_mem_far(z, hst, ndl) ==
    LET nlen == Len(ndl)
        d == (2 * nlen - 1 - Mod64(IntLimit, nlen)) % nlen
    IN  IF Lt64(Add64(IntLimit, N64(d)), Add64(z, N64(Len(hst)))) THEN UNDEF ELSE NULL

(***************************************************************************)
(* Memory of riffx: the file is mapped read-only; the bytes of the last    *)
(* page behind the end of file read as zero, a read behind the mapping     *)
(* kills the process (FAULT).                                              *)
(***************************************************************************)
rd(m, tail, i) ==
    IF i < Len(m) THEN m[i + 1]
    ELSE IF i < Len(m) + tail THEN 0
    ELSE FAULT

\* get_ui32 on the four bytes b at p, in byte order e (cfg.endianess).  The
\* int expression b[3] << 24 is converted to uint32_t on return, which gives
\* the plain 32-bit value for every byte.
get_ui32(b, e) ==
    IF e = 0 THEN <<b[1] + 256 * b[2], b[3] + 256 * b[4], 0, 0>>
    ELSE <<b[4] + 256 * b[3], b[2] + 256 * b[1], 0, 0>>

(***************************************************************************)
(* labl: the label of the segment m[p .. p+len).                           *)
(***************************************************************************)
MaxLabel == 200
MinLabel == 6

\* strcpy's source: the bytes from q up to the first NUL.
cstr(m, tail, q) ==
    IF q >= Len(m) + tail THEN <<>>
    ELSE LET n == CHOOSE k \in 0..(Len(m) + tail - q) :
                      /\ rd(m, tail, q + k) \in {0, FAULT}
                      /\ \A j \in 0..(k - 1) : rd(m, tail, q + j) \notin {0, FAULT}
         IN  [k \in 1..n |-> rd(m, tail, q + k - 1)]

\* (a sanitizing bug: the label is returned as copied)
sanitize_none(lab) == lab

\* The "Sanitize label" loop.
sanitize(lab) ==
    [i \in 1..Len(lab) |->
        IF ~isprint(lab[i]) \/ lab[i] \in {47, 92, 32} THEN 95 ELSE lab[i]]

\* (a position bug: the NUL is looked for ll - 1 bytes behind the text start)
labl_nul_off_text(b, ll) == b + 8 + ll - 1

\* The offset of the byte that must be NUL, b[ll+4-1]: b is the offset of the
\* length field, so this is the last byte of a payload of ll bytes.
labl_nul_off(b, ll) == b + ll + 4 - 1

\* The acceptance test of line 220 on the clamped length ll, the first text
\* byte c8 = b[8] and the byte z = b[ll+4-1].
labl_accept(ll, c8, z) ==
    /\ Le64(ll, N64(MaxLabel))
    /\ Le64(N64(MinLabel), ll)
    /\ isprint(c8)
    /\ z = 0

\* ll <= 200 && ll >= 6.
labl_inrange(ll) == Le64(ll, N64(MaxLabel)) /\ Le64(N64(MinLabel), ll)

\* Lines 215-217: ll = get_ui32(b), clamped to l - 4 (size_t arithmetic).
labl_clamp(d, l1) ==
    LET lm4 == Sub64(N64(l1), N64(4))
    IN  IF Lt64(lm4, d) THEN lm4 ELSE d

\* Line 220, b[8]: read only when the two comparisons before it hold.
labl_c8(m, tail, b1, ll) == IF labl_inrange(ll) THEN rd(m, tail, b1 + 8) ELSE 0

\* Line 220, b[ll+4-1]: read only when the three tests before it hold.
labl_z(m, tail, b1, ll, c8) ==
    IF labl_inrange(ll) /\ c8 # FAULT /\ isprint(c8)
    THEN rd(m, tail, labl_nul_off(b1, ToInt(ll)))
    ELSE 1

\* The highest offset the pass reads outside mem_mem.
labl_hi(st, b1, ll, c8) ==
    Max({st.rdmax, b1 + 3}
        \cup (IF labl_inrange(ll) THEN {b1 + 8} ELSE {})
        \cup (IF labl_inrange(ll) /\ c8 # FAULT /\ isprint(c8)
              THEN {labl_nul_off(b1, ToInt(ll))} ELSE {}))

RECURSIVE labl_scan(_, _, _, _, _, _, _, _)

\* Lines 220-223 with everything read: accept and copy the text, or go on.
labl_decide(m, tail, e, p, len, b1, l1, wok, c8, z, acc, cands, hi) ==
    IF ~wok \/ c8 = FAULT \/ z = FAULT
    THEN [lab |-> <<>>, cands |-> cands, rdmax |-> hi, fault |-> TRUE]
    ELSE IF acc
    THEN [lab |-> cstr(m, tail, b1 + 8), cands |-> cands, rdmax |-> hi, fault |-> FALSE]
    ELSE labl_scan(m, tail, e, p, len, b1, l1, [cands |-> cands, rdmax |-> hi])

\* Line 220 on the tag at t: b1 is b behind the tag, d the length field.
labl_test(m, tail, e, p, len, st, t, b1, l1, wok, d, ll, c8, z) ==
    labl_decide(m, tail, e, p, len, b1, l1, wok, c8, z,
                wok /\ c8 # FAULT /\ z # FAULT /\ labl_accept(ll, c8, z),
                Append(st.cands,
                       [tag |-> t, d |-> d, ll |-> ll,
                        acc |-> wok /\ c8 # FAULT /\ z # FAULT /\ labl_accept(ll, c8, z)]),
                labl_hi(st, b1, ll, c8))

\* Lines 213-220 for the length field bytes w at b1.
labl_field(m, tail, e, p, len, st, t, b1, l1, w, wok, d, ll, c8) ==
    labl_test(m, tail, e, p, len, st, t, b1, l1, wok, d, ll, c8,
              labl_z(m, tail, b1, ll, c8))

labl_len(m, tail, e, p, len, st, t, b1, l1, w, wok, d, ll) ==
    labl_field(m, tail, e, p, len, st, t, b1, l1, w, wok, d, ll,
               labl_c8(m, tail, b1, ll))

labl_read(m, tail, e, p, len, st, t, b1, l1, w, wok, d) ==
    labl_len(m, tail, e, p, len, st, t, b1, l1, w, wok, d, labl_clamp(d, l1))

labl_word(m, tail, e, p, len, st, t, b1, l1, w, wok) ==
    labl_read(m, tail, e, p, len, st, t, b1, l1, w, wok,
              IF wok THEN get_ui32(w, e) ELSE N64(0))

\* Lines 212-214 with the result t of mem_mem.
labl_found(m, tail, e, p, len, st, t, w) ==
    IF t = NULL
    THEN [lab |-> <<>>, cands |-> st.cands, rdmax |-> st.rdmax, fault |-> FALSE]
    ELSE labl_word(m, tail, e, p, len, st, t, t + 4, len - (t + 4 - p), w,
                   \A k \in 1..4 : w[k] # FAULT)

\* The while loop of labl from the state (b, l); st collects the candidates
\* examined so far and the highest offset read outside mem_mem.
labl_tag(m, tail, e, p, len, st, t) ==
    labl_found(m, tail, e, p, len, st, t, [k \in 1..4 |-> rd(m, tail, t + 4 + k - 1)])

labl_scan(m, tail, e, p, len, b, l, st) ==
    labl_tag(m, tail, e, p, len, st, IF l > 8 THEN mem_mem(m, b, l, LABL) ELSE NULL)

\* labl: the loop, then the "Sanitize label" loop on its result.
labl_sanitized(r) == [r EXCEPT !.lab = sanitize(r.lab)]

labl(m, tail, e, p, len) ==
    labl_sanitized(labl_scan(m, tail, e, p, len, p, len, [cands |-> <<>>, rdmax |-> NULL]))

\* What dump hands to the file system for one segment; created is the
\* outcome of creat(), l what labl returned.
dump_file(sid, b, len, created, l) ==
    [id |-> sid, off |-> b, len |-> len, lab |-> l.lab, cands |-> l.cands,
     rdmax |-> l.rdmax, fault |-> l.fault, created |-> created]

dump(m, tail, c, sid, b, len, created) ==
    dump_file(sid, b, len, created,
              IF c.use_label = 1 THEN labl(m, tail, c.endianess, b, len)
              ELSE [lab |-> <<>>, cands |-> <<>>, rdmax |-> NULL, fault |-> FALSE])

(***************************************************************************)
(* extract: the segmenter.                                                 *)
(***************************************************************************)
\* (a priority bug: RIFX is probed first)
probe_rifx_first(m) ==
    LET r0 == mem_mem(m, 0, Len(m), RIFF)
        r1 == mem_mem(m, 0, Len(m), RIFX)
    IN  IF r1 # NULL THEN <<1, r1>> ELSE IF r0 # NULL THEN <<0, r0>> ELSE <<2, NULL>>

\* The probing loop of lines 280-282: <<cfg.endianess, riff>> as it ends.
probe(m) ==
    LET r0 == mem_mem(m, 0, Len(m), RIFF)
        r1 == mem_mem(m, 0, Len(m), RIFX)
    IN  IF r0 # NULL THEN <<0, r0>> ELSE IF r1 # NULL THEN <<1, r1>> ELSE <<2, NULL>>

\* (a restart bug: the search resumes behind the 8-byte header)
next_hit_skip_header(m, e, r, rem) == mem_mem(m, r + 8, rem - 8, RIF_(e))

\* Line 288: the next occurrence of the scan's signature, from riff + 4.
next_hit(m, e, r, rem) == mem_mem(m, r + 4, rem - 4, RIF_(e))

\* (a length bug: every segment runs to the end of the file)
seg_length_to_end(m, c, r, rem, next) == rem

\* (a mode bug: the size field is used in guess mode too)
seg_length_declared(m, c, r, rem, next) ==
    LET s == get_ui32([k \in 1..4 |-> m[r + 4 + k]], c.endianess)
        rsize == Trunc32(Add64(s, N64(8)))
    IN  IF Lt64(N64(rem), rsize) THEN rem ELSE ToInt(rsize)

\* Lines 290-297: rsize.  get_ui32(...) + 8 is uint32_t arithmetic, so the
\* sum is taken modulo 2^32 before it is stored in the size_t rsize.
seg_length(m, c, r, rem, next) ==
    IF c.guess_length = 1
    THEN IF next # NULL THEN next - r ELSE rem
    ELSE LET s == get_ui32([k \in 1..4 |-> m[r + 4 + k]], c.endianess)
             rsize == Trunc32(Add64(s, N64(8)))
         IN  IF Lt64(N64(rem), rsize) THEN rem ELSE ToInt(rsize)

\* mmap of an empty file fails (EINVAL): extract returns -1.
ExtractMapFailed ==
    /\ pc = "extract"
    /\ Len(mfile) = 0
    /\ pc' = "done"
    /\ ret' = 0 - 1
    /\ UNCHANGED <<cfg, mmVars, mfile, maptail, riff, remsize, id, segs, decVars>>

\* Lines 278-285, no signature in the file: return 0.
ExtractNoRiff ==
    /\ pc = "extract"
    /\ Len(mfile) > 0
    /\ probe(mfile)[2] = NULL
    /\ id' = 0
    /\ cfg' = [cfg EXCEPT !.endianess = probe(mfile)[1]]
    /\ riff' = NULL
    /\ ret' = 0
    /\ pc' = "done"
    /\ UNCHANGED <<mmVars, mfile, maptail, remsize, segs, decVars>>

\* Lines 278-285, a signature was found.
ExtractProbe ==
    /\ pc = "extract"
    /\ Len(mfile) > 0
    /\ probe(mfile)[2] # NULL
    /\ id' = 0
    /\ cfg' = [cfg EXCEPT !.endianess = probe(mfile)[1]]
    /\ riff' = probe(mfile)[2]
    /\ remsize' = Len(mfile) - probe(mfile)[2]
    /\ pc' = "loop"
    /\ UNCHANGED <<mmVars, mfile, maptail, segs, ret, decVars>>

\* (an error-handling bug: a segment whose file was not created keeps its id free)
next_id_on_success(sid, created) == IF created THEN sid + 1 ELSE sid

\* Lines 300-302: the value dump returns is dropped, ++id follows in any case.
next_id(sid, created) == sid + 1

\* One pass of the while loop of lines 286-305.
ExtractIter ==
    /\ pc = "loop"
    /\ remsize > 8 /\ riff # NULL
    /\ \E created \in BOOLEAN :
        LET next == next_hit(mfile, cfg.endianess, riff, remsize)
            rsize == seg_length(mfile, cfg, riff, remsize, next)
            seg == dump(mfile, maptail, cfg, id, riff, rsize, created)
        IN  IF seg.fault
            THEN /\ pc' = "killed"
                 /\ UNCHANGED <<segs, id, riff, remsize>>
            ELSE /\ segs' = Append(segs, seg)
                 /\ id' = next_id(id, created)
                 /\ riff' = next
                 /\ remsize' = IF next # NULL THEN Len(mfile) - next ELSE 0
                 /\ pc' = "loop"
    /\ UNCHANGED <<cfg, mmVars, mfile, maptail, ret, decVars>>

\* Lines 306-307: the loop has ended.
ExtractReturn ==
    /\ pc = "loop"
    /\ ~(remsize > 8 /\ riff # NULL)
    /\ ret' = id
    /\ pc' = "done"
    /\ UNCHANGED <<cfg, mmVars, mfile, maptail, riff, remsize, id, segs, decVars>>

(***************************************************************************)
(* A call of mem_mem on its own.                                           *)
(***************************************************************************)
\* A read before the haystack may end the process, or yield any byte, and
\* with it any result.
MemMemCall ==
    /\ pc = "mm_call"
    /\ LET r == IF hzero = N64(0) THEN mem_mem(haystack, 0, Len(haystack), needle)
                ELSE mem_mem_far(hzero, haystack, needle)
       IN  IF r = UNDEF
           THEN \/ pc' = "killed" /\ mm_ret' = mm_ret
                \/ pc' = "mm_ret" /\ mm_ret' \in {NULL} \cup (0..(Len(haystack) - 1))
           ELSE pc' = "mm_ret" /\ mm_ret' = r
    /\ UNCHANGED <<cfg, haystack, hzero, needle, exVars, decVars>>

(***************************************************************************)
(* Inputs.                                                                 *)
(***************************************************************************)
MaxHay == 7
MaxNdl == 3
MaxAtoms == 5
TailLen == 16

\* Haystacks and needles over a two-letter alphabet ('a', 'b').
MMBytes == {97, 98}
Hays == SeqsUpTo(MMBytes, MaxHay)
Needles == SeqsUpTo(MMBytes, MaxNdl)

\* Files for the segmenter: signatures, size words and single bytes in any order.
SegAtoms == {RIFF, RIFX, <<255, 255, 255, 255>>, <<4, 0, 0, 0>>, <<0, 0, 0, 4>>, <<0>>}
SegInputs == {Flat(a) : a \in SeqsUpTo(SegAtoms, MaxAtoms)}

\* A 32-bit field holding n < 2^16 in byte order e.
Enc32(e, n) ==
    IF e = 0 THEN <<n % 256, n \div 256, 0, 0>> ELSE <<0, 0, n \div 256, n % 256>>

Rep(c, n) == [i \in 1..n |-> c]

\* Files that hold exactly one well-formed chunk, from offset 0 to their end:
\* a form type and at most one data chunk, whose bytes may spell a signature.
OneChunkPayloads(e) ==
    { WAVE,
      WAVE \o DATA \o Enc32(e, 2) \o <<1, 2>>,
      WAVE \o DATA \o Enc32(e, 3) \o <<1, 2, 3, 0>>,
      WAVE \o DATA \o Enc32(e, 4) \o RIF_(e),
      WAVE \o DATA \o Enc32(e, 10) \o RIF_(e) \o Rep(0, 6),
      WAVE \o DATA \o Enc32(e, 10) \o RIF_(1 - e) \o Rep(0, 6) }

OneChunkFiles ==
    UNION { {RIF_(e) \o Enc32(e, Len(pl)) \o pl : pl \in OneChunkPayloads(e)} : e \in {0, 1} }

KICK == <<107, 105, 99, 107, 95, 48, 49>>

\* Label candidates behind the tag: <<length field, text bytes>>.
LablCands ==
    { <<12, KICK \o <<0>>>>,                            \* id + "kick_01" + NUL
      <<8, KICK \o <<0>>>>,                             \* length without the id
      <<300, KICK \o <<0>>>>,
      <<16, KICK \o <<0, 0, 0, 0, 0>>>>,
      <<12, <<107, 105, 0, 107, 95, 48, 49, 0>>>>,      \* a NUL inside the text
      <<6, <<97, 0>>>>,
      <<5, <<97, 0>>>>,
      <<6, <<7, 0>>>>,                                  \* first byte not printable
      <<8, <<97, 47, 32, 0>>>>,                         \* "a/ "
      <<8, <<97, 7, 92, 0>>>>,                          \* 'a', BEL, backslash
      <<MaxLabel, Rep(120, MaxLabel - 5) \o <<0>>>>,
      <<MaxLabel, Rep(120, MaxLabel - 4) \o <<0>>>>,
      <<MaxLabel + 1, Rep(120, MaxLabel - 4) \o <<0>>>> }

\* What follows the candidate: nothing, padding, a second candidate, a chunk.
LablPosts(e) ==
    {<<>>, <<0, 0, 0>>, LABL \o Enc32(e, 6) \o <<2, 0, 0, 0, 98, 0>>,
     RIF_(e) \o <<0, 0, 0, 0, 0>>}

\* Files for the label extractor: one chunk header, a candidate, and what follows.
LablInputsOf(e) ==
    { RIF_(e) \o sz \o pre \o LABL \o Enc32(e, c[1]) \o <<1, 0, 0, 0>> \o c[2] \o post :
        c \in LablCands,
        sz \in {<<255, 255, 255, 255>>, <<0, 0, 0, 0>>},
        pre \in {<<>>, <<0>>},
        post \in LablPosts(e) }

\* Files whose only candidate follows a "note" tag: "kick_01" with the length
\* field 12 and zeros behind the text.
NoteInputsOf(e) ==
    { RIF_(e) \o sz \o NOTE \o Enc32(e, 12) \o <<1, 0, 0, 0>> \o KICK \o Rep(0, n) :
        sz \in {<<255, 255, 255, 255>>, <<0, 0, 0, 0>>}, n \in {5, 6} }

\* Files whose "labl" tag stands near the end of a segment: the first n bytes
\* of a candidate (length field 6, id, "a", NUL) follow the tag, then the
\* file ends or a second segment begins.
TailTagInputsOf(e) ==
    { RIF_(e) \o Enc32(e, 100) \o <<0>> \o LABL
          \o SubSeq(Enc32(e, 6) \o <<1, 0, 0, 0, 97, 0>>, 1, n) \o post :
        n \in 0..10,
        post \in {<<>>, RIF_(e) \o <<0, 0, 0, 0, 0, 0, 0, 0>>} }

LablInputs ==
    LablInputsOf(0) \cup LablInputsOf(1) \cup NoteInputsOf(0) \cup NoteInputsOf(1)
        \cup TailTagInputsOf(0) \cup TailTagInputsOf(1)

NoCfg == [use_label |-> 0, guess_length |-> 0, endianess |-> 0]

\* The variables of the programs that are not running.
NoExtract ==
    /\ mfile = <<>> /\ maptail = 0
    /\ riff = NULL /\ remsize = 0 /\ id = 0 /\ segs = <<>> /\ ret = 0

NoDecode ==
    /\ fbuf = <<>> /\ fzero = <<0, 0, 0, 0>> /\ filesize = <<0, 0, 0, 0>>
    /\ cur = <<>> /\ stack = <<>> /\ out = <<>> /\ calls = <<>> /\ nums = {}
    /\ rdtop = <<>>

InitMM ==
    /\ pc = "mm_call"
    /\ haystack \in Hays
    /\ \/ hzero = N64(0) /\ needle \in Needles
       \/ hzero = IntLimit /\ needle \in Needles \ {<<>>}
    /\ mm_ret = NULL
    /\ cfg = NoCfg
    /\ NoExtract
    /\ NoDecode

InitEx ==
    /\ pc = "extract"
    /\ haystack = <<>> /\ hzero = <<0, 0, 0, 0>> /\ needle = <<>> /\ mm_ret = NULL
    /\ NoDecode
    /\ \/ /\ mfile \in SegInputs \cup OneChunkFiles
          /\ maptail = 0
          /\ \E g \in {0, 1} : cfg = [use_label |-> 0, guess_length |-> g, endianess |-> 0]
       \/ /\ mfile \in LablInputs
          /\ maptail \in {0, TailLen}
          /\ \E g \in {0, 1} : cfg = [use_label |-> 1, guess_length |-> g, endianess |-> 0]
    /\ riff = NULL /\ remsize = 0 /\ id = 0 /\ segs = <<>> /\ ret = 0

NextMM == MemMemCall

NextEx == ExtractMapFailed \/ ExtractNoRiff \/ ExtractProbe \/ ExtractIter \/ ExtractReturn

SpecMM == InitMM /\ [][NextMM]_vars

SpecEx == InitEx /\ [][NextEx]_vars

(***************************************************************************)
(* unriffle: main and the recursive chunk dumper rdump.                    *)
(*                                                                         *)
(* fbuf holds the bytes of the file and, behind them, the bytes of the     *)
(* heap that a read past the allocation returns; a read behind those       *)
(* kills the process.  A file too long to list ends in fzero zero bytes,   *)
(* which follow the bytes of fbuf.  Pointers are offsets from fbuf, kept   *)
(* as 64-bit numbers like the size_t remainders.                           *)
(***************************************************************************)
LIST == <<76, 73, 83, 84>>
FMT == <<102, 109, 116, 32>>
CUE == <<99, 117, 101, 32>>
ADTL == <<97, 100, 116, 108>>

NoRead == <<>>

\* unriffle's get_ui32 on the four bytes b, in byte order e (cfg.endianess).
unriffle_get_ui32(b, e) ==
    IF e = 0 THEN <<b[1] + 256 * b[2], b[3] + 256 * b[4], 0, 0>>
    ELSE <<b[4] + 256 * b[3], b[2] + 256 * b[1], 0, 0>>

\* unriffle's get_ui16 on the two bytes b.
unriffle_get_ui16(b, e) ==
    IF e = 0 THEN <<b[1] + 256 * b[2], 0, 0, 0>>
    ELSE <<b[2] + 256 * b[1], 0, 0, 0>>

Max64(a, b) == IF Lt64(a, b) THEN b ELSE a

\* The readable memory from the start of the buffer: fbuf and the zeros behind it.
MemLen == Add64(N64(Len(fbuf)), fzero)

\* The n bytes at q .. q+n-1 can all be read.
Readable(q, n) == Le64(Add64(q, n), MemLen)

\* The readable byte at q.
Byte(q) == IF Lt64(q, N64(Len(fbuf))) THEN fbuf[ToInt(q) + 1] ELSE 0

Bytes(q, n) == [k \in 1..n |-> Byte(Add64(q, N64(k - 1)))]

\* Reading the spans sp (pairs <<offset, length>>) in order, up to the first
\* one that cannot be read: whether all were read, and the highest offset
\* touched (t: the highest so far).
RECURSIVE ReadSpans(_, _)
ReadSpans(sp, t) ==
    IF sp = <<>> THEN [ok |-> TRUE, top |-> t]
    ELSE LET q == Head(sp)[1]
             n == Head(sp)[2]
             last == Sub64(Add64(q, n), N64(1))
         IN  IF n = N64(0) THEN ReadSpans(Tail(sp), t)
             ELSE IF Readable(q, n)
             THEN ReadSpans(Tail(sp), IF t = NoRead THEN last ELSE Max64(t, last))
             ELSE LET f == Max64(q, MemLen)
                  IN  [ok |-> FALSE, top |-> IF t = NoRead THEN f ELSE Max64(t, f)]

\* The length of the C string at q (without the NUL), or FAULT when the heap
\* ends before a NUL.
RECURSIVE StrLen(_)
StrLen(q) ==
    IF ~Readable(q, N64(1)) THEN FAULT
    ELSE IF Byte(q) = 0 THEN 0
    ELSE LET r == StrLen(Add64(q, N64(1)))
         IN  IF r = FAULT THEN FAULT ELSE r + 1

\* A numeric field of w bytes read at q in the current mode.
NumAt(q, w) ==
    [off |-> q, w |-> w,
     v |-> IF w = 4 THEN unriffle_get_ui32(Bytes(q, 4), cfg.endianess)
           ELSE unriffle_get_ui16(Bytes(q, 2), cfg.endianess)]

Off(q, k) == Add64(q, N64(k))

\* The size field of the running call's chunk.
CurSz == unriffle_get_ui32(Bytes(Off(cur.p, 4), 4), cfg.endianess)
CurTag == Bytes(cur.p, 4)

\* Lines 401-407 let the call go on to dump the chunk.
CurValid ==
    /\ Le64(N64(8), cur.fsize)
    /\ Readable(cur.p, N64(8))
    /\ Le64(N64(2), CurSz)
    /\ Le64(CurSz, cur.fsize)

Kill(sp) ==
    /\ pc' = "killed"
    /\ rdtop' = ReadSpans(sp, rdtop).top
    /\ UNCHANGED <<cfg, mmVars, exVars, fbuf, fzero, filesize, cur, stack, out, calls, nums>>

\* Lines 494-496: the file starts with neither RIFF nor RIFX.
MainNotRiff ==
    /\ pc = "main"
    /\ Bytes(N64(0), 4) \notin {RIFF, RIFX}
    /\ pc' = "exit_failure"
    /\ rdtop' = N64(3)
    /\ UNCHANGED <<cfg, mmVars, exVars, fbuf, fzero, filesize, cur, stack, out, calls, nums>>

\* (a mode bug: the byte order is never set to big-endian)
root_mode_riff(tag) == 0

\* Lines 494-498: the byte order of the pass, from the root tag.
root_mode(tag) == IF tag = RIFF THEN 0 ELSE 1

\* Lines 494-503: fix the byte order and call rdump on the whole file.
Main ==
    /\ pc = "main"
    /\ Bytes(N64(0), 4) \in {RIFF, RIFX}
    /\ cfg' = [cfg EXCEPT !.endianess = root_mode(Bytes(N64(0), 4))]
    /\ cur' = [p |-> N64(0), fsize |-> filesize, parent |-> 0, from |-> 0]
    /\ calls' = <<cur'>>
    /\ rdtop' = N64(3)
    /\ pc' = "rdump"
    /\ UNCHANGED <<mmVars, exVars, fbuf, fzero, filesize, stack, out, nums>>

\* Lines 401-402: fewer than 8 bytes remain.
RdumpShort ==
    /\ pc = "rdump"
    /\ Lt64(cur.fsize, N64(8))
    /\ pc' = "return"
    /\ UNCHANGED <<cfg, mmVars, exVars, decVars>>

\* Line 403: the size field lies behind the readable memory.
RdumpHeaderFault ==
    /\ pc = "rdump"
    /\ Le64(N64(8), cur.fsize)
    /\ ~Readable(cur.p, N64(8))
    /\ Kill(<<<<Off(cur.p, 4), N64(4)>>>>)

\* Lines 403-407: a size below 2 or above the remaining bytes ends the call.
RdumpBadSize ==
    /\ pc = "rdump"
    /\ Le64(N64(8), cur.fsize)
    /\ Readable(cur.p, N64(8))
    /\ Lt64(CurSz, N64(2)) \/ Lt64(cur.fsize, CurSz)
    /\ rdtop' = ReadSpans(<<<<Off(cur.p, 4), N64(4)>>>>, rdtop).top
    /\ nums' = nums \cup {NumAt(Off(cur.p, 4), 4)}
    /\ pc' = "return"
    /\ UNCHANGED <<cfg, mmVars, exVars, fbuf, fzero, filesize, cur, stack, out, calls>>

\* Line 424: sz - sizeof(fcc_t), in size_t arithmetic.
list_remainder(sz) == Sub64(sz, N64(4))

\* Lines 408-414 and 422-424: a RIFF, RIFX or LIST chunk: report it, read the
\* subtype, and call rdump on the payload behind the subtype.
RdumpContainer ==
    /\ pc = "rdump"
    /\ CurValid
    /\ CurTag \in {RIFF, RIFX, LIST}
    /\ LET sp == <<<<cur.p, N64(8)>>, <<Off(cur.p, 8), N64(4)>>>>
           r == ReadSpans(sp, rdtop)
           sz == CurSz
           kind == IF CurTag = LIST THEN "list" ELSE "riff"
       IN  IF ~r.ok THEN Kill(sp)
           ELSE /\ rdtop' = r.top
                /\ nums' = nums \cup {NumAt(Off(cur.p, 4), 4)}
                /\ out' = Append(out, [off |-> cur.p, tag |-> CurTag, size |-> sz,
                                       parent |-> cur.parent, text |-> <<>>])
                /\ stack' = Append(stack, [kind |-> kind, p |-> cur.p, fsize |-> cur.fsize,
                                           sz |-> sz, idx |-> Len(out) + 1,
                                           parent |-> cur.parent])
                /\ cur' = [p |-> Off(cur.p, 12),
                           fsize |-> IF kind = "list" THEN list_remainder(sz) ELSE sz,
                           parent |-> Len(out) + 1, from |-> 0]
                /\ calls' = Append(calls, cur')
                /\ pc' = "rdump"
                /\ UNCHANGED <<cfg, mmVars, exVars, fbuf, fzero, filesize>>

\* The bytes a leaf chunk of tag t and size sz at p makes rdump read, in
\* order, behind the 8-byte header (lines 426-459).
LeafSpans(t, p, sz) ==
    IF t \in {LABL, NOTE} THEN <<<<Off(p, 8), N64(4)>>>>
    ELSE IF t = CUE THEN <<<<Off(p, 8), N64(4)>>>>
    ELSE IF t = FMT
    THEN <<<<Off(p, 8), N64(16)>>>>
         \o (IF Lt64(N64(16), sz)
             THEN <<<<Off(p, 24), N64(2)>>, <<Off(p, 26), Trunc32(Sub64(sz, N64(18)))>>>>
             ELSE <<>>)
    ELSE <<<<Off(p, 8), sz>>>>

\* The 24-byte entries of a cue chunk with cn entries (line 434-443).
CueSpan(p, cn) ==
    IF IsSmall(cn) THEN <<Off(p, 12), N64(24 * ToInt(cn))>>
    ELSE <<Off(p, 12), <<0, 0, 1, 0>>>>

\* The numeric fields of a leaf chunk that was read completely.
LeafNums(t, p, sz) ==
    IF t \in {LABL, NOTE} THEN {NumAt(Off(p, 8), 4)}
    ELSE IF t = CUE
    THEN {NumAt(Off(p, 8), 4)}
         \cup {NumAt(Off(p, 12 + 24 * i + k), 4) :
                 i \in 0..(ToInt(unriffle_get_ui32(Bytes(Off(p, 8), 4), cfg.endianess)) - 1),
                 k \in {0, 4, 12, 16, 20}}
    ELSE IF t = FMT
    THEN {NumAt(Off(p, 8), 2), NumAt(Off(p, 10), 2), NumAt(Off(p, 12), 4),
          NumAt(Off(p, 16), 4), NumAt(Off(p, 20), 2), NumAt(Off(p, 22), 2)}
         \cup (IF Lt64(N64(16), sz) THEN {NumAt(Off(p, 24), 2)} ELSE {})
    ELSE {}

\* Lines 462-465: the size with the pad byte of an odd size, ++sz on a uint32_t.
padded(sz) == IF sz[1] % 2 = 1 THEN Trunc32(Add64(sz, N64(1))) ELSE sz

\* Line 466 (after line 429 for labl and note): the arguments of the call for
\* the next sibling of the chunk at p with remainder fs and size sz.
NextSibling(p, fs, sz, parent, idx) ==
    [p |-> Add64(Off(p, 8), padded(sz)),
     fsize |-> Sub64(fs, padded(sz)),
     parent |-> parent, from |-> idx]

\* Lines 408-410 and 426-466: any other chunk: report it with its fields,
\* skip the pad byte and call rdump for the next sibling.
RdumpLeaf ==
    /\ pc = "rdump"
    /\ CurValid
    /\ CurTag \notin {RIFF, RIFX, LIST}
    /\ LET sz == CurSz
           t == CurTag
           hdr == <<<<cur.p, N64(8)>>>>
           body == LeafSpans(t, cur.p, sz)
           r1 == ReadSpans(hdr \o body, rdtop)
           cue == IF t = CUE /\ r1.ok
                  THEN <<CueSpan(cur.p, unriffle_get_ui32(Bytes(Off(cur.p, 8), 4),
                                                          cfg.endianess))>>
                  ELSE <<>>
           slen == IF t \in {LABL, NOTE} /\ r1.ok THEN StrLen(Off(cur.p, 12)) ELSE 0
           str == IF slen = FAULT THEN <<>> ELSE Bytes(Off(cur.p, 12), slen)
           strsp == IF t \in {LABL, NOTE} /\ r1.ok
                    THEN <<<<Off(cur.p, 12),
                             IF slen = FAULT THEN <<0, 0, 1, 0>> ELSE N64(slen + 1)>>>>
                    ELSE <<>>
           pad == IF sz[1] % 2 = 1 THEN <<<<Add64(Off(cur.p, 8), sz), N64(1)>>>> ELSE <<>>
           sp == hdr \o body \o cue \o strsp \o pad
           r == ReadSpans(sp, rdtop)
           fs == IF t \in {LABL, NOTE} THEN Sub64(cur.fsize, N64(8)) ELSE cur.fsize
       IN  IF ~r.ok THEN Kill(sp)
           ELSE /\ rdtop' = r.top
                /\ nums' = nums \cup {NumAt(Off(cur.p, 4), 4)} \cup LeafNums(t, cur.p, sz)
                /\ out' = Append(out, [off |-> cur.p, tag |-> t, size |-> sz,
                                       parent |-> cur.parent, text |-> str])
                /\ stack' = Append(stack, [kind |-> "tail", p |-> cur.p, fsize |-> cur.fsize,
                                           sz |-> sz, idx |-> Len(out) + 1,
                                           parent |-> cur.parent])
                /\ cur' = NextSibling(cur.p, fs, sz, cur.parent, Len(out) + 1)
                /\ calls' = Append(calls, cur')
                /\ pc' = "rdump"
                /\ UNCHANGED <<cfg, mmVars, exVars, fbuf, fzero, filesize>>

Top == stack[Len(stack)]
Pop == SubSeq(stack, 1, Len(stack) - 1)

\* Line 466: a call made by "return rdump(...)" has returned; so does its caller.
RdumpReturnTail ==
    /\ pc = "return"
    /\ stack # <<>> /\ Top.kind = "tail"
    /\ stack' = Pop
    /\ UNCHANGED <<pc, cfg, mmVars, exVars, fbuf, fzero, filesize, cur, out, calls, nums, rdtop>>

\* Lines 460-466 of a LIST whose payload call has returned: skip the pad byte
\* and call rdump for the next sibling.
RdumpResumeList ==
    /\ pc = "return"
    /\ stack # <<>> /\ Top.kind = "list"
    /\ LET f == Top
           pad == IF f.sz[1] % 2 = 1 THEN <<<<Add64(Off(f.p, 8), f.sz), N64(1)>>>> ELSE <<>>
           r == ReadSpans(pad, rdtop)
       IN  IF ~r.ok THEN Kill(pad)
           ELSE /\ rdtop' = r.top
                /\ stack' = Append(Pop, [f EXCEPT !.kind = "tail"])
                /\ cur' = NextSibling(f.p, f.fsize, f.sz, f.parent, f.idx)
                /\ calls' = Append(calls, cur')
                /\ pc' = "rdump"
                /\ UNCHANGED <<cfg, mmVars, exVars, fbuf, fzero, filesize, out, nums>>

\* Lines 415-420 of a RIFF or RIFX whose payload call has returned: dump the
\* bytes behind the chunk, if any (sz + 8 is uint32_t arithmetic), return 0.
RdumpResumeRiff ==
    /\ pc = "return"
    /\ stack # <<>> /\ Top.kind = "riff"
    /\ LET f == Top
           s8 == Trunc32(Add64(f.sz, N64(8)))
           extra == IF Lt64(s8, f.fsize)
                    THEN <<<<Add64(Off(f.p, 8), f.sz), Sub64(f.fsize, s8)>>>>
                    ELSE <<>>
           r == ReadSpans(extra, rdtop)
       IN  IF ~r.ok THEN Kill(extra)
           ELSE /\ rdtop' = r.top
                /\ stack' = Pop
                /\ pc' = "return"
                /\ UNCHANGED <<cfg, mmVars, exVars, fbuf, fzero, filesize, cur, out, calls, nums>>

\* Lines 503-505: rdump has returned to main.
MainExit ==
    /\ pc = "return"
    /\ stack = <<>>
    /\ pc' = "exit"
    /\ UNCHANGED <<cfg, mmVars, exVars, decVars>>

NextDec ==
    \/ MainNotRiff \/ Main
    \/ RdumpShort \/ RdumpHeaderFault \/ RdumpBadSize \/ RdumpContainer \/ RdumpLeaf
    \/ RdumpReturnTail \/ RdumpResumeList \/ RdumpResumeRiff \/ MainExit

(***************************************************************************)
(* Inputs of unriffle: RIFF files built from chunks, then damaged.         *)
(***************************************************************************)
MaxKids == 2

Enc16(e, n) == IF e = 0 THEN <<n % 256, n \div 256>> ELSE <<n \div 256, n % 256>>

PadOf(n) == IF n % 2 = 1 THEN <<0>> ELSE <<>>

\* A fmt chunk of declared size sz with the payload bytes x behind the 16 fixed ones.
FmtChunk(e, sz, x) ==
    FMT \o Enc32(e, sz) \o Enc16(e, 1) \o Enc16(e, 2) \o Enc32(e, 8000) \o Enc32(e, 32000)
        \o Enc16(e, 4) \o Enc16(e, 16) \o x

LablChunk(e, text) ==
    LABL \o Enc32(e, 4 + Len(text)) \o Enc32(e, 1) \o text \o PadOf(Len(text))

ListChunk(e, body) == LIST \o Enc32(e, 4 + Len(body)) \o ADTL \o body

CueChunk(e, n) ==
    CUE \o Enc32(e, 4 + 24 * n) \o Enc32(e, n)
        \o Flat([i \in 1..n |-> Enc32(e, i) \o Enc32(e, 258) \o DATA \o Enc32(e, 0)
                                  \o Enc32(e, 0) \o Enc32(e, 258)])

RawChunk(e, n) == DATA \o Enc32(e, n) \o Rep(170, n) \o PadOf(n)

RiffChunk(e, tag, body) == tag \o Enc32(e, 4 + Len(body)) \o WAVE \o body

ABC0 == <<97, 98, 99, 0>>
AB0 == <<97, 98, 0>>

\* The chunks a root may hold, with their fields in byte order e.
Kids(e) ==
    { FmtChunk(e, 16, <<>>),
      ListChunk(e, LablChunk(e, ABC0)),
      ListChunk(e, LablChunk(e, AB0)),
      LablChunk(e, AB0),
      CueChunk(e, 1),
      RawChunk(e, 3),
      RiffChunk(e, RIF_(1 - e), FmtChunk(e, 16, <<>>)) }

\* Bytes of the heap behind the file: none, zeros, or what looks like a chunk.
Slacks(e) == {<<>>, Rep(0, 12), DATA \o Enc32(e, 2) \o <<1, 2>> \o Rep(0, 12)}

\* Bytes missing at the end of a truncated file.
Cuts == {0, 1, 4, 8}

\* Well-formed files in byte order e under the root tag RIF_(t).
DecFiles(e, t) == {RiffChunk(e, RIF_(t), Flat(k)) : k \in SeqsUpTo(Kids(e), MaxKids)}

\* A file of 4 GiB and 36 bytes: a root and a labl chunk, both of declared size
\* 0xFFFFFFFF, then zeros up to the end of the file (<<9, 0, 1, 0>> of them).
HugeFile(t) ==
    RIF_(t) \o <<255, 255, 255, 255>> \o WAVE
        \o LABL \o <<255, 255, 255, 255>> \o <<1, 0, 0, 0>> \o AB0

\* Files whose root holds one fmt chunk with an extension: of declared size
\* 18 + n with the extension-length field x and n bytes behind it, for a
\* field that states n and one that states more; and one of declared size 17.
FmtFiles ==
    {RiffChunk(e, RIF_(e), FmtChunk(e, 18 + n, Enc16(e, x) \o Rep(170, n))) :
        e \in {0, 1}, n \in {0, 2}, x \in {0, 2, 5}}
    \cup {RiffChunk(e, RIF_(e), FmtChunk(e, 17, <<0, 0>>)) : e \in {0, 1}}

\* A LIST chunk holding one data chunk, and a data chunk behind the LIST.
ListDataFile(e) ==
    RiffChunk(e, RIF_(e), ListChunk(e, RawChunk(e, 2)) \o RawChunk(e, 4))

\* A LIST chunk of odd declared size 13 whose one child declares 200 bytes,
\* then the pad byte and a sibling of the LIST.
OddListFile(e) ==
    RiffChunk(e, RIF_(e), LIST \o Enc32(e, 13) \o ADTL \o DATA \o Enc32(e, 200) \o <<7>>
                             \o <<0>> \o RawChunk(e, 2))

\* A file of 4 GiB and 36 bytes: a root and a LIST chunk, both of declared
\* size 0xFFFFFFFF, the LIST's child of the same declared size, then zeros up
\* to the end of the file (<<4, 0, 1, 0>> of them).
HugeList(t) ==
    RIF_(t) \o <<255, 255, 255, 255>> \o WAVE
        \o LIST \o <<255, 255, 255, 255>> \o ADTL \o DATA \o <<255, 255, 255, 255>>

\* The deepest nesting of LIST chunks in the files of NestFiles.
MaxNest == 3

\* A labl chunk wrapped in n LIST chunks, one inside the other.
RECURSIVE Nested(_, _)
Nested(e, n) == IF n = 0 THEN LablChunk(e, ABC0) ELSE ListChunk(e, Nested(e, n - 1))

\* Files whose root holds LIST chunks nested 1 .. MaxNest deep.
NestFiles == {RiffChunk(e, RIF_(e), Nested(e, n)) : e \in {0, 1}, n \in 1..MaxNest}

\* The inputs: the listed bytes of the file, the bytes of the heap behind the
\* file, and the number of zero bytes that end the file.
DecInputs ==
    UNION { { <<SubSeq(f, 1, Len(f) - c), sl, N64(0)>> :
                f \in DecFiles(e, t), c \in Cuts, sl \in Slacks(e) } :
            e \in {0, 1}, t \in {0, 1} }
    \cup {<<LIST \o Enc32(0, 4) \o ADTL, <<>>, N64(0)>>}
    \cup {<<HugeFile(t), <<>>, <<9, 0, 1, 0>>>> : t \in {0, 1}}
    \cup {<<f, <<>>, N64(0)>> : f \in NestFiles}
    \cup {<<OddListFile(e), <<>>, N64(0)>> : e \in {0, 1}}
    \cup {<<ListDataFile(e), <<>>, N64(0)>> : e \in {0, 1}}
    \cup {<<f, Rep(0, 12), N64(0)>> : f \in FmtFiles}
    \cup {<<HugeList(t), <<>>, <<4, 0, 1, 0>>>> : t \in {0, 1}}

InitDec ==
    /\ pc = "main"
    /\ haystack = <<>> /\ hzero = <<0, 0, 0, 0>> /\ needle = <<>> /\ mm_ret = NULL
    /\ NoExtract
    /\ cfg = NoCfg
    /\ \E x \in DecInputs :
          /\ fbuf = x[1] \o x[2] /\ fzero = x[3]
          /\ filesize = Add64(N64(Len(x[1])), x[3])
    /\ cur = <<>> /\ stack = <<>> /\ out = <<>> /\ calls = <<>> /\ nums = {}
    /\ rdtop = NoRead

SpecDec == InitDec /\ [][NextDec]_vars

Init == InitMM \/ InitEx \/ InitDec

Next == NextMM \/ NextEx \/ NextDec

Spec == Init /\ [][Next]_vars

(***************************************************************************)
(* Properties of mem_mem and of the segmenter.                             *)
(***************************************************************************)
\* n occurs in h at offset o.
Occurs(h, n, o) == o + Len(n) <= Len(h) /\ \A i \in 1..Len(n) : h[o + i] = n[i]

Occ(h, n) == {o \in 0..Len(h) : Occurs(h, n, o)}

Scanned == pc \in {"loop", "done"} /\ ret # 0 - 1

\* The size field at offset O + 4, read in the scan's byte order.
SizeField(O) == get_ui32([k \in 1..4 |-> mfile[O + 4 + k]], cfg.endianess)

\* C3: for a needle of positive length mem_mem returns the lowest offset at
\* which the needle occurs in the haystack, and not-found (NULL) exactly when
\* it occurs nowhere; for an empty needle it returns the start of the haystack.
\* (The needles are over {a, b}: they occur in the listed bytes only.)
C3_MemMemFirst ==
    /\ ~(pc = "killed" /\ hzero # N64(0))
    /\ pc = "mm_ret" =>
          IF Len(needle) = 0 THEN mm_ret = 0
          ELSE IF Occ(haystack, needle) = {} THEN mm_ret = NULL
          ELSE mm_ret = Min(Occ(haystack, needle))

\* The same for the haystacks below 2 GiB.
C3_Below2G == (hzero = N64(0)) => C3_MemMemFirst

\* A needle with a repeated byte found behind a partial match: "aab" in "aaab..".
C3_Witness ==
    /\ pc = "mm_ret" /\ hzero = N64(0)
    /\ needle = <<97, 97, 98>>
    /\ Len(haystack) >= 5
    /\ mm_ret = 1
    /\ haystack[1] = 97

\* C1: in declared mode every emitted segment has length min(8 + s, L - O),
\* with s the 32-bit size field at O + 4 and 8 + s taken without wrap-around.
C1_DeclaredLength ==
    (Scanned /\ cfg.guess_length = 0) =>
        \A i \in 1..Len(segs) :
            LET O == segs[i].off
                full == Add64(SizeField(O), N64(8))
            IN  segs[i].len = IF Lt64(full, N64(Len(mfile) - O)) THEN ToInt(full)
                              ELSE Len(mfile) - O

\* C4: the emitted segments are exactly the occurrences of the scan's
\* signature with at least 9 bytes to the end of the file, one each, in
\* increasing offset order with ids 0, 1, 2, ...; the returned count is their
\* number.  (Occurrences inside an emitted segment are among them.)
C4_OneSegmentPerHit ==
    Scanned =>
        LET sig == RIF_(cfg.endianess)
            hits == {o \in Occ(mfile, sig) : Len(mfile) - o >= 9}
        IN  /\ \A i \in 1..Len(segs) : segs[i].id = i - 1 /\ segs[i].off \in hits
            /\ \A i \in 1..(Len(segs) - 1) : segs[i].off < segs[i + 1].off
            /\ \A i \in 1..Len(segs) :
                  \A o \in hits : o < segs[i].off => \E j \in 1..(i - 1) : segs[j].off = o
            /\ pc = "done" =>
                  /\ ret = Len(segs)
                  /\ {segs[i].off : i \in 1..Len(segs)} =
                        IF cfg.endianess = 2 THEN {} ELSE hits

\* Three segments, the second starting inside the first, and a further
\* occurrence with fewer than 9 bytes left that is not emitted.
C4_Witness ==
    /\ pc = "done" /\ ret = 3
    /\ segs[1].off + segs[1].len > segs[2].off
    /\ \E o \in Occ(mfile, RIF_(cfg.endianess)) : o > segs[3].off

\* C5: in guess mode the segment at O ends at the lowest occurrence of the
\* signature at or behind O + 4, or at the end of the file when there is none.
C5_GuessLength ==
    (Scanned /\ cfg.guess_length = 1) =>
        \A i \in 1..Len(segs) :
            LET O == segs[i].off
                later == {o \in Occ(mfile, RIF_(cfg.endianess)) : o >= O + 4}
            IN  segs[i].len = IF later = {} THEN Len(mfile) - O ELSE Min(later) - O

\* Two chunks, the first with the size field 0xFFFFFFFF: the first segment
\* ends where the second chunk starts.
C5_Witness ==
    /\ pc = "done" /\ cfg.guess_length = 1 /\ Len(segs) = 2
    /\ SizeField(segs[1].off) = <<Base - 1, Base - 1, 0, 0>>
    /\ segs[1].off + segs[1].len = segs[2].off
    /\ segs[2].off + segs[2].len = Len(mfile)

\* C6 as stated: the signature whose first occurrence is at the lower offset
\* fixes the byte order; neither signature, no segments.
C6_EarliestSignature ==
    Scanned =>
        LET o0 == Occ(mfile, RIFF)
            o1 == Occ(mfile, RIFX)
        IN  IF o0 = {} /\ o1 = {} THEN segs = <<>>
            ELSE IF o1 = {} \/ (o0 # {} /\ Min(o0) < Min(o1)) THEN cfg.endianess = 0
            ELSE cfg.endianess = 1

\* C6, amended: RIFF has priority.  The scan is little-endian on RIFF whenever
\* RIFF occurs anywhere in the file, big-endian on RIFX only when RIFF occurs
\* nowhere, and produces no segment when neither occurs; every segment of the
\* scan starts at an occurrence of that one signature.
C6_RiffPriority ==
    Scanned =>
        LET o0 == Occ(mfile, RIFF)
            o1 == Occ(mfile, RIFX)
        IN  /\ o0 # {} => cfg.endianess = 0
            /\ (o0 = {} /\ o1 # {}) => cfg.endianess = 1
            /\ (o0 = {} /\ o1 = {}) => (segs = <<>> /\ pc = "done" /\ ret = 0)
            /\ \A i \in 1..Len(segs) : segs[i].off \in Occ(mfile, RIF_(cfg.endianess))

\* A RIFX in front of the first RIFF, and the scan runs on RIFF.
C6_Witness ==
    /\ pc = "done" /\ Len(segs) >= 1
    /\ Occ(mfile, RIFX) # {} /\ Occ(mfile, RIFF) # {}
    /\ Min(Occ(mfile, RIFX)) < Min(Occ(mfile, RIFF))
    /\ Len(mfile) - Min(Occ(mfile, RIFX)) >= 9
    /\ cfg.endianess = 0

\* C14: in declared mode a file that holds exactly one well-formed chunk of
\* payload size S, from offset 0 to its end at 8 + S, yields exactly one
\* segment: offset 0, length 8 + S.
C14_OneChunkOneSegment ==
    (pc = "done" /\ cfg.guess_length = 0 /\ mfile \in OneChunkFiles) =>
        /\ ret = 1 /\ Len(segs) = 1
        /\ segs[1].off = 0 /\ segs[1].len = Len(mfile)

(***************************************************************************)
(* Properties of the label extractor.                                      *)
(***************************************************************************)
\* The candidates the extractor examined whose tag, length field, id and
\* first text byte lie inside their segment: <<segment index, candidate index>>.
Candidates ==
    {x \in UNION {{<<i, j>> : j \in 1..Len(segs[i].cands)} : i \in 1..Len(segs)} :
        segs[x[1]].cands[x[2]].tag + 13 <= segs[x[1]].off + segs[x[1]].len}

\* The length field of the candidate at tag offset T.
LenField(T) == get_ui32([k \in 1..4 |-> mfile[T + 4 + k]], cfg.endianess)

AllCandidates ==
    {x \in UNION {{<<i, j>> : j \in 1..Len(segs[i].cands)} : i \in 1..Len(segs)} :
        segs[x[1]].cands[x[2]].tag + 8 <= Len(mfile)}

\* C11: a candidate whose length field is below 6 or above 200 is never
\* accepted, whatever the segment's length and the bytes behind the field.
C11_OutOfRangeRejected ==
    \A x \in AllCandidates :
        LET c == segs[x[1]].cands[x[2]]
            d == LenField(c.tag)
        IN  (Lt64(d, N64(MinLabel)) \/ Lt64(N64(MaxLabel), d)) => ~c.acc

\* The bytes of the file from offset q up to the first NUL (or the end of file).
TextAt(q) ==
    LET n == Min({k \in 0..(Len(mfile) - q) : q + k >= Len(mfile) \/ mfile[q + k + 1] = 0})
    IN  SubSeq(mfile, q + 1, q + n)

\* The indices of the accepted candidates of segment i.
Accepted(i) == {j \in 1..Len(segs[i].cands) : segs[i].cands[j].acc}

\* C12: a returned label holds only printable characters other than '/', '\'
\* and space; it is the accepted text with each other character replaced by
\* '_' in place, and it is empty when no candidate was accepted.
C12_LabelSanitized ==
    \A i \in 1..Len(segs) :
        LET lab == segs[i].lab
        IN  /\ \A k \in 1..Len(lab) : isprint(lab[k]) /\ lab[k] \notin {47, 92, 32}
            /\ Accepted(i) = {} => lab = <<>>
            /\ \A j \in Accepted(i) :
                  LET text == TextAt(segs[i].cands[j].tag + 12)
                  IN  /\ Len(lab) = Len(text)
                      /\ \A k \in 1..Len(text) :
                            lab[k] = IF isprint(text[k]) /\ text[k] \notin {47, 92, 32}
                                     THEN text[k] ELSE 95

\* The accepted text 'a', BEL, '\' returned as "a__".
C12_Witness ==
    /\ cfg.use_label = 1 /\ Len(segs) >= 1
    /\ segs[1].lab = <<97, 95, 95>>
    /\ \E j \in Accepted(1) : TextAt(segs[1].cands[j].tag + 12) = <<97, 7, 92>>

\* The candidate behind a tag at T in a segment ending at E is acceptable:
\* its length field d is in [6,200] and does not reach behind the segment, its
\* first text byte is printable and both the last payload byte and the byte
\* d - 1 bytes behind the text start are NUL.
Acceptable(T, E) ==
    /\ T + 13 <= E
    /\ LET d == LenField(T)
       IN  /\ Le64(N64(MinLabel), d) /\ Le64(d, N64(MaxLabel))
           /\ T + 12 + ToInt(d) <= E
           /\ isprint(mfile[T + 12 + 1])
           /\ mfile[T + 8 + ToInt(d)] = 0
           /\ mfile[T + 12 + ToInt(d)] = 0

\* The occurrences of the tag tg that lie inside segment i.
TagsIn(i, tg) ==
    {T \in Occ(mfile, tg) : segs[i].off <= T /\ T + 4 <= segs[i].off + segs[i].len}

\* C13: a segment without a "labl" tag whose first "note" tag introduces an
\* acceptable candidate gets that candidate's text as its label.
C13_NoteAsLabl ==
    \A i \in 1..Len(segs) :
        (cfg.use_label = 1 /\ TagsIn(i, LABL) = {} /\ TagsIn(i, NOTE) # {}) =>
            LET T == Min(TagsIn(i, NOTE))
            IN  Acceptable(T, segs[i].off + segs[i].len) =>
                    segs[i].lab = TextAt(T + 12)

\* The segments extract hands to dump when every file can be written: from
\* the hit r with rem bytes left and the next id sid.
RECURSIVE HandedOver(_, _, _, _, _)
HandedOverTo(m, c, r, rem, sid, next) ==
    <<[id |-> sid, off |-> r, len |-> seg_length(m, c, r, rem, next)]>>
        \o HandedOver(m, c, next, IF next # NULL THEN Len(m) - next ELSE 0, sid + 1)

HandedOver(m, c, r, rem, sid) ==
    IF ~(rem > 8 /\ r # NULL) THEN <<>>
    ELSE HandedOverTo(m, c, r, rem, sid, next_hit(m, c.endianess, r, rem))

\* The segments of the scanned file, from the first hit of the probe.
AllHandedOver ==
    HandedOver(mfile, cfg, probe(mfile)[2], Len(mfile) - probe(mfile)[2], 0)

SameSegments(ref) ==
    /\ Len(segs) <= Len(ref)
    /\ \A i \in 1..Len(segs) :
          /\ segs[i].id = i - 1
          /\ segs[i].id = ref[i].id
          /\ segs[i].off = ref[i].off
          /\ segs[i].len = ref[i].len
    /\ pc = "done" => (ret = Len(ref) /\ Len(segs) = ret)

\* C16: the ids, offsets and lengths of the segments handed to dump, and the
\* count extract returns, do not depend on which files could be created: they
\* are those of a scan in which no creation fails, the ids counting from 0
\* without a gap.
C16_WriteFailureIgnored ==
    (pc \in {"loop", "done", "killed"} /\ Len(mfile) > 0 /\ probe(mfile)[2] # NULL) =>
        SameSegments(AllHandedOver)

\* Three segments were handed over, the file of the first could not be
\* created, that of the second could, and extract returned 3.
C16_Witness ==
    /\ pc = "done" /\ ret = 3 /\ Len(segs) = 3
    /\ ~segs[1].created /\ segs[2].created
    /\ segs[2].id = 1 /\ segs[3].id = 2

\* C20: labl reads no byte outside the segment it was given (length field,
\* first text byte, NUL-check byte and text all lie below the segment's end,
\* so that no read can end the process), and the text it copies has at most
\* 200 characters.
C20_LablReadsInsideSegment ==
    /\ pc # "killed"
    /\ \A i \in 1..Len(segs) :
          /\ segs[i].rdmax # NULL => segs[i].rdmax < segs[i].off + segs[i].len
          /\ Len(segs[i].lab) <= MaxLabel

\* A segment that ends before the end of the file was handed over and labl
\* has read behind its end.
C20_Reach ==
    \E i \in 1..Len(segs) :
        /\ segs[i].off + segs[i].len < Len(mfile)
        /\ segs[i].rdmax # NULL /\ segs[i].rdmax >= segs[i].off + segs[i].len

\* The same without the bound on the reads: no label is longer than 200.
C20_LabelLength == \A i \in 1..Len(segs) : Len(segs[i].lab) <= MaxLabel

\* The end of the emitted segment i.
SegEnd(i) == segs[i].off + segs[i].len

\* C21: in guess mode every emitted segment is non-empty and lies inside the
\* file, each one ends where the next one starts, so that no two overlap, and
\* when the scan is over the last one ends at the end of the file or at an
\* occurrence of the scan's signature with fewer than 9 bytes to the end of
\* the file.
C21_GuessContiguous ==
    (pc \in {"loop", "done", "killed"} /\ cfg.guess_length = 1) =>
        /\ \A i \in 1..Len(segs) :
              /\ 0 <= segs[i].off /\ segs[i].len > 0 /\ SegEnd(i) <= Len(mfile)
              /\ i < Len(segs) => SegEnd(i) = segs[i + 1].off
        /\ \A i, j \in 1..Len(segs) :
              i < j => SegEnd(i) <= segs[j].off
        /\ (pc = "done" /\ Len(segs) >= 1) =>
              \/ SegEnd(Len(segs)) = Len(mfile)
              \/ /\ Occurs(mfile, RIF_(cfg.endianess), SegEnd(Len(segs)))
                 /\ Len(mfile) - SegEnd(Len(segs)) < 9

\* Two segments in guess mode, the second ending at a third occurrence of the
\* signature that has fewer than 9 bytes left and is not emitted.
C21_Witness ==
    /\ pc = "done" /\ cfg.guess_length = 1 /\ Len(segs) = 2
    /\ SegEnd(1) = segs[2].off
    /\ SegEnd(2) < Len(mfile)
    /\ Occurs(mfile, RIF_(cfg.endianess), SegEnd(2))

(***************************************************************************)
(* Properties of the chunk dumper.                                         *)
(***************************************************************************)
Decoding == pc \in {"rdump", "return", "exit", "killed"}

\* The byte order the root tag stands for.
RootMode == IF SubSeq(fbuf, 1, 4) = RIFF THEN 0 ELSE 1

\* The value of the w bytes at q, least significant byte first (mode 0) or
\* most significant byte first (mode 1).
FieldValue(q, w, mode) ==
    LET b == [k \in 1..w |-> Byte(Off(q, (IF mode = 0 THEN k ELSE w + 1 - k) - 1))]
    IN  IF w = 2 THEN <<b[1] + 256 * b[2], 0, 0, 0>>
        ELSE <<b[1] + 256 * b[2], b[3] + 256 * b[4], 0, 0>>

\* C2: every byte read in a decode pass lies at an offset below the file
\* length, whatever the size and count fields hold.
C2_ReadsInsideFile ==
    Decoding => (rdtop = NoRead \/ Lt64(rdtop, filesize))

\* The files of C8: a RIFF root holding a fmt chunk of size 16 and a LIST
\* chunk that wraps one labl chunk.
C8Files ==
    {RiffChunk(0, RIFF, FmtChunk(0, 16, <<>>) \o ListChunk(0, LablChunk(0, t))) :
        t \in {ABC0, AB0}}

\* C8: decoding such a file reports the root, fmt and LIST as the root's
\* children and the labl, with the text of the file, as the LIST's child, and
\* no chunk header is read anywhere else: no third root child and no second
\* LIST child is attempted.
C8_TwoRootChildren ==
    (Decoding /\ fzero = N64(0) /\ SubSeq(fbuf, 1, ToInt(filesize)) \in C8Files) =>
        /\ \A i \in 1..Len(calls) :
              Le64(N64(8), calls[i].fsize) =>
                  calls[i].p \in {N64(0), N64(12), N64(36), N64(48)}
        /\ pc # "killed"
        /\ pc = "exit" =>
              /\ Len(out) = 4
              /\ out[1].tag = RIFF /\ out[1].parent = 0
              /\ out[2].tag = FMT /\ out[2].parent = 1
              /\ out[3].tag = LIST /\ out[3].parent = 1
              /\ out[4].tag = LABL /\ out[4].parent = 3
              /\ out[4].text \o <<0>> \in {ABC0, AB0}

\* The call rdump makes for the next sibling of the reported chunk k.
SiblingCalls(k) == {i \in 1..Len(calls) : calls[i].from = k}

\* Chunk k is complete: it is no LIST whose payload is still being dumped.
Completed(k) == \A j \in 1..Len(stack) : ~(stack[j].idx = k /\ stack[j].kind = "list")

\* C9: after every completed chunk other than a RIFF/RIFX container, at P with
\* declared size S, rdump is called once for the next sibling, at
\* P + 8 + S + (S mod 2).
C9_PadSkipped ==
    \A k \in 1..Len(out) :
        (out[k].tag \notin {RIFF, RIFX} /\ Completed(k)) =>
            /\ Cardinality(SiblingCalls(k)) = 1
            /\ \A i \in SiblingCalls(k) :
                  calls[i].p = Add64(Add64(Off(out[k].off, 8), out[k].size),
                                     N64(out[k].size[1] % 2))

\* C10: from the call of rdump on, the byte-order mode is the one of the root
\* tag, and every 16-bit and 32-bit field read in the pass has the value of
\* its bytes in that mode.
C10_FixedByteOrder ==
    Decoding =>
        /\ cfg.endianess = RootMode
        /\ \A n \in nums : n.v = FieldValue(n.off, n.w, RootMode)

\* A fmt chunk inside a RIFX container inside a RIFF root: its sample rate is
\* read least significant byte first.
C10_Witness ==
    /\ pc = "exit" /\ RootMode = 0
    /\ \E k \in 2..(Len(out) - 1) :
        /\ out[k].tag = RIFX
        /\ out[k + 1].tag = FMT /\ out[k + 1].parent = k
        /\ [off |-> Off(out[k + 1].off, 12), w |-> 4, v |-> N64(8000)] \in nums

\* The calls of rdump in progress that cannot be replaced by a jump: the
\* running one and those waiting in a RIFF, RIFX or LIST chunk for the call
\* on their payload.
CallDepth == 1 + Cardinality({j \in 1..Len(stack) : stack[j].kind # "tail"})

\* The call depth a file with LIST chunks nested MaxNest - 1 deep needs.
DepthLimit == MaxNest + 1

\* C15: the call depth of the chunk decoder never exceeds a fixed maximum,
\* whatever the nesting of the file (taken here as the depth that the files
\* one level short of the deepest need): a chunk nested deeper is not decoded.
C15_DepthLimited ==
    Decoding => CallDepth <= DepthLimit

\* The call c of rdump ends at line 407: the declared size of its chunk is
\* greater than the remaining bytes it was given.
Truncated(c) ==
    /\ Le64(N64(8), c.fsize)
    /\ Readable(c.p, N64(8))
    /\ Lt64(c.fsize, unriffle_get_ui32(Bytes(Off(c.p, 4), 4), cfg.endianess))

\* The calls on the children of the reported LIST chunk k that are Truncated.
TruncatedIn(k) == {i \in 1..Len(calls) : calls[i].parent = k /\ Truncated(calls[i])}

\* C17: a Truncated call on a child of a LIST is the last call on a child of
\* that LIST, and once the LIST is complete rdump has been called once for its
\* next sibling, at the LIST's end plus the pad byte of an odd size; a
\* Truncated call on the root reports no chunk and makes no further call.
C17_TruncatedChild ==
    Decoding =>
        /\ \A k \in 1..Len(out) :
              (out[k].tag = LIST /\ TruncatedIn(k) # {}) =>
                 /\ \A i \in TruncatedIn(k) : \A j \in (i + 1)..Len(calls) : calls[j].parent # k
                 /\ Completed(k) =>
                       /\ Cardinality(SiblingCalls(k)) = 1
                       /\ \A i \in SiblingCalls(k) :
                             calls[i].p = Add64(Add64(Off(out[k].off, 8), out[k].size),
                                                N64(out[k].size[1] % 2))
        /\ (Len(calls) >= 1 /\ Truncated(calls[1])) =>
              (out = <<>> /\ Len(calls) = 1 /\ pc # "killed")

\* The same for the files below 4 GiB.
C17_Below4G == (fzero = N64(0)) => C17_TruncatedChild

\* The file of OddListFile: a LIST of odd size with a Truncated child, and the
\* data chunk behind its pad byte reported as its sibling.
C17_Reach ==
    /\ Decoding /\ \E k \in 1..Len(out) :
          /\ out[k].tag = LIST /\ out[k].size[1] % 2 = 1 /\ TruncatedIn(k) # {}
          /\ \E n \in (k + 1)..Len(out) : out[n].parent = out[k].parent /\ out[n].tag = DATA

\* The spans rdump reads behind the header of the reported chunk k.
SpansOf(k) == LeafSpans(out[k].tag, out[k].off, out[k].size)

\* The extension-length field of the reported fmt chunk k.
ExtLen(k) == unriffle_get_ui16(Bytes(Off(out[k].off, 24), 2), cfg.endianess)

\* C18: for a reported fmt chunk of declared size above 16, the bytes dumped
\* behind the extension-length field start at payload offset 18 and are as
\* many as that field states; for a declared size up to 16 neither the field
\* nor such bytes are read.
C18_FmtExtension ==
    \A k \in 1..Len(out) :
        out[k].tag = FMT =>
            IF Lt64(N64(16), out[k].size)
            THEN /\ Len(SpansOf(k)) = 3
                 /\ SpansOf(k)[2] = <<Off(out[k].off, 8 + 16), N64(2)>>
                 /\ SpansOf(k)[3] = <<Off(out[k].off, 8 + 18), ExtLen(k)>>
            ELSE Len(SpansOf(k)) = 1

\* The same where the extension-length field states the declared size less 18.
C18_WellFormed ==
    \A k \in 1..Len(out) :
        (out[k].tag = FMT /\ Lt64(N64(16), out[k].size)
            /\ Add64(ExtLen(k), N64(18)) = out[k].size) =>
                /\ Len(SpansOf(k)) = 3
                /\ SpansOf(k)[3] = <<Off(out[k].off, 8 + 18), ExtLen(k)>>

\* A fmt chunk of declared size 20 with two bytes of extension was reported.
C18_Reach ==
    \E k \in 1..Len(out) :
        out[k].tag = FMT /\ out[k].size = N64(20) /\ ExtLen(k) = N64(2)

\* The end of the declared payload of the reported chunk k.
PayloadEnd(k) == Add64(Off(out[k].off, 8), out[k].size)

\* The calls of rdump hand over the bytes up to the end of the parent's
\* declared payload (for the root: of the file).
BoundIsParentRest ==
    \A i \in 1..Len(calls) :
        LET e == IF calls[i].parent = 0 THEN filesize ELSE PayloadEnd(calls[i].parent)
        IN  Le64(calls[i].p, e) /\ calls[i].fsize = Sub64(e, calls[i].p)

\* Every reported child lies inside the declared payload of its container.
ChildInsideParent ==
    \A n \in 1..Len(out) :
        out[n].parent # 0 =>
            /\ Le64(Off(out[out[n].parent].off, 12), out[n].off)
            /\ Le64(Add64(Off(out[n].off, 8), out[n].size), PayloadEnd(out[n].parent))

\* No chunk is reported as a child of a LIST and as a sibling of that LIST.
NotChildAndSibling ==
    \A k \in 1..Len(out) :
        out[k].tag = LIST =>
            \A n1, n2 \in 1..Len(out) :
                ~(out[n1].parent = k /\ out[n2].parent = out[k].parent /\ n2 > k
                    /\ out[n1].off = out[n2].off)

\* C19: the remaining-byte bound of every call of rdump is the distance from
\* the chunk's start to the end of its parent's declared payload (of the file
\* for the root), every reported child starts and ends inside the declared
\* payload of its container, and no chunk is reported both as a child and as
\* a sibling of a LIST.
C19_BoundInsideParent ==
    Decoding => (BoundIsParentRest /\ ChildInsideParent /\ NotChildAndSibling)

====
